---- MODULE Spec2Model ----
(***************************************************************************)
(* Model of src/ridi_translation.py: the RidiTranslatorApp polling loop    *)
(* (capture -> fingerprint -> OCR -> normalize -> cache/translate ->       *)
(* publish), the Tk handlers that drive it (select_region, start, stop,    *)
(* on_close) and the Tk event queue that carries root.after() callbacks    *)
(* from the worker threads to the UI thread.                               *)
(*                                                                         *)
(* Texts are sequences of one-character strings, so that                   *)
(* normalize_ocr_text is computed (split, strip, filter, join), not        *)
(* assumed.  Threads interleave at the granularity of their accesses to    *)
(* the shared attributes of the app object.                                *)
(***************************************************************************)
EXTENDS Integers, Sequences, FiniteSets, Bags, TLC

(***************************************************************************)
(* Program constants                                                       *)
(***************************************************************************)
MIN_TEXT_CHARS == 10

MinRegionSide == 40

(***************************************************************************)
(* Bounds of the model                                                     *)
(***************************************************************************)
\* number of worker threads that can be alive at the same time
MaxWorkers == 2

\* number of root.after() callbacks that can be pending in the Tk queue
MaxQueue == 1

\* Optional[X] is a sequence of at most one X
None == <<>>

Some(x) == <<x>>

(***************************************************************************)
(* Text helpers                                                            *)
(***************************************************************************)
NL == "\n"

SP == " "

Whitespace == {SP, NL}

RECURSIVE Rep(_, _)
\* the string c * n
Rep(c, n) == IF n = 0 THEN <<>> ELSE <<c>> \o Rep(c, n - 1)

RECURSIVE SplitLines(_)
\* str.splitlines(): the lines of s without their line ends; a trailing
\* line end opens no further line, and "" has no lines
SplitLines(s) ==
    IF s = <<>> THEN <<>>
    ELSE IF \E i \in 1..Len(s) : s[i] = NL
         THEN LET i == CHOOSE k \in 1..Len(s) :
                           s[k] = NL /\ \A j \in 1..(k - 1) : s[j] # NL
              IN  <<SubSeq(s, 1, i - 1)>> \o SplitLines(SubSeq(s, i + 1, Len(s)))
         ELSE <<s>>

RECURSIVE LStrip(_)
LStrip(s) ==
    IF s # <<>> /\ Head(s) \in Whitespace THEN LStrip(Tail(s)) ELSE s

RECURSIVE RStrip(_)
RStrip(s) ==
    IF s # <<>> /\ s[Len(s)] \in Whitespace
    THEN RStrip(SubSeq(s, 1, Len(s) - 1))
    ELSE s

\* str.strip()
Strip(s) == RStrip(LStrip(s))

RECURSIVE Join(_)
\* "\n".join(lines)
Join(lines) ==
    IF lines = <<>> THEN <<>>
    ELSE IF Len(lines) = 1 THEN lines[1]
    ELSE lines[1] \o <<NL>> \o Join(Tail(lines))

NonEmpty(ln) == ln # <<>>

\* normalize_ocr_text
normalize_ocr_text(text) ==
    LET stripped == [i \in 1..Len(SplitLines(text)) |-> Strip(SplitLines(text)[i])]
    IN  Join(SelectSeq(stripped, NonEmpty))

(***************************************************************************)
(* The environment: what the screen can show.  A frame is one content of   *)
(* the captured rectangle; its thumbnail decides the fingerprint and its   *)
(* glyphs decide what the OCR engine reads.                                *)
(***************************************************************************)
\* pytesseract.image_to_string on each frame
OcrRaw ==
    <<  Rep("a", 10),
        <<SP>> \o Rep("a", 10) \o <<SP, NL, NL>>,
        Rep("b", 5) \o <<NL, SP, NL>> \o Rep("b", 5),
        Rep("a", 4) \o <<NL, NL, SP>> \o Rep("b", 4) \o <<SP>> >>

\* the thumbnail of each frame
Thumb == <<1, 2, 3, 4>>

\* a reading session shows the frames of one of these sets on the screen:
\* frames 1 and 2 are two renderings of the same text and frame 4 holds too
\* little text; frames 1 and 3 hold two different texts
Sessions == {{1, 2, 4}, {1, 3}}

\* cheap_region_hash: the digest of the thumbnail
cheap_region_hash(img) == Thumb[img]

\* result.text of the translation service for the text t
ServiceText(t) == <<"EN", NL>> \o t

\* the message of the exception raised by translate_text
ErrDetail == "quota exceeded"

\* f"[DeepL error]\n{e}\n\n--- OCR ---\n{ocr_text}"
ErrorPayload(e, t) == <<"[DeepL error]", NL, e, NL, NL, "--- OCR ---", NL>> \o t

(***************************************************************************)
(* Region selection: the points the pointer can be pressed and released at *)
(***************************************************************************)
\* (x, y) of the pointer events
Points == {<<0, 0>>, <<40, 39>>, <<40, 40>>}

Max(a, b) == IF a >= b THEN a ELSE b

Min(a, b) == IF a <= b THEN a ELSE b

\* on_release rejecting only the rectangles too small in both dimensions
on_release_And(x1, y1, x2, y2) ==
    LET left   == Min(x1, x2)
        top    == Min(y1, y2)
        right  == Max(x1, x2)
        bottom == Max(y1, y2)
        width  == Max(1, right - left)
        height == Max(1, bottom - top)
    IN  IF width < MinRegionSide /\ height < MinRegionSide
        THEN None
        ELSE Some([left |-> left, top |-> top, width |-> width, height |-> height])

\* RegionSelector.on_release: the result of a drag from (x1, y1) to (x2, y2)
on_release(x1, y1, x2, y2) ==
    LET left   == Min(x1, x2)
        top    == Min(y1, y2)
        right  == Max(x1, x2)
        bottom == Max(y1, y2)
        width  == Max(1, right - left)
        height == Max(1, bottom - top)
    IN  IF width < MinRegionSide \/ height < MinRegionSide
        THEN None
        ELSE Some([left |-> left, top |-> top, width |-> width, height |-> height])

\* the status line texts
StSelectFirst == "Select a region to begin."
StDrag        == "Drag to select the reading area. Press ESC to cancel."
StCancelled   == "region selection cancelled."
StRegionSet   == "Region set"
StPlease      == "Please Select Region first."
StRunning     == "Running... scroll the page to update translations"
StStopped     == "Stopped."
StNoText      == "OCR: not enough tetx (or noise)."
StSameText    == "OCR: changed pixels, same text."
StCached      == "Translated (cached)."
StTranslated  == "Translated via DeepL."
StError       == "DeepL error (see output)."

(***************************************************************************)
(* State                                                                   *)
(***************************************************************************)
VARIABLES
    region,       \* self.region: Optional[CaptureRegion]
    running,      \* self.running
    last_hash,    \* self.last_hash: Optional[str]
    last_ocr,     \* self.last_ocr
    lact_ocr,     \* self.lact_ocr, the attribute select_region assigns
    cache,        \* self.cache: a function from normalized texts to translations
    status,       \* self.status (the StringVar of the status line)
    text,         \* the content of the self.text widget
    btn_start,    \* state of the Start button
    btn_stop,     \* state of the Stop button
    ui,           \* the UI thread: "idle" in mainloop, "selecting" in the
                  \* selector's wait_window, "closed" after on_close
    queue,        \* callbacks posted with root.after(0, ...), oldest first
    shown,        \* the frames the screen shows during this session
    threads,      \* the live threads running loop(): a bag of their frames
                  \* [pc, img, ocr_text, translated, e]
    \* history of the run, read by the properties only
    fresh,        \* a region was selected while no thread was alive, and no
                  \* tick has grabbed the screen since
    prevFp,       \* fingerprint of the latest grab since the last selection
    prevOcr,      \* the frame the latest OCR call since the last selection
                  \* read (0: none yet)
    hist,         \* the ticks completed since a region was selected while no
                  \* thread was alive, see Observe
    failed        \* txt: the text of the latest translate_text call that raised,
                  \* "" when there is none or when a tick has since recognized
                  \* another text of MIN_TEXT_CHARS characters or more

progVars == <<region, running, last_hash, last_ocr, lact_ocr, cache, status, text,
              btn_start, btn_stop, ui, queue, shown, threads>>

vars == <<progVars, fresh, prevFp, prevOcr, hist, failed>>

appVars  == <<region, running, last_hash, last_ocr, lact_ocr, cache>>

loopVars == <<last_hash, last_ocr, cache>>

uiVars   == <<status, text, btn_start, btn_stop, ui, shown>>

\* the frame of a thread at the position l of loop(); img is the frame grabbed
\* (0 before the grab and after the OCR), ocr_text and translated are "" until
\* they are assigned, e is the exception caught from translate_text, if any
Frame(l, i, o, t) ==
    [pc |-> l, img |-> i, ocr_text |-> o, translated |-> t, e |-> None]

\* a thread at `while self.running`, nothing of a tick in its locals
AtWhile == Frame("while", 0, <<>>, <<>>)

\* the threads whose loop() has not returned
Alive == BagToSet(threads)

\* the translate_text calls of a history are counted up to this number
MaxCalls == 3

\* the value of prevFp in the runs that do not record it
Unrecorded == <<0>>

\* no history is being recorded
HistOff == [on |-> FALSE, ticks |-> <<>>, calls |-> 0]

NumAlive == BagCardinality(threads)

\* RidiTranslatorApp.__init__
InitApp ==
    /\ region = None
    /\ running = FALSE
    /\ last_hash = None
    /\ last_ocr = <<>>
    /\ lact_ocr = None
    /\ cache = << >>
    /\ status = StSelectFirst
    /\ text = <<>>
    /\ btn_start = "normal"
    /\ btn_stop = "disabled"
    /\ ui = "idle"
    /\ queue = <<>>
    /\ shown \in Sessions
    /\ threads = EmptyBag
    /\ fresh = FALSE
    /\ hist = HistOff

\* failed when it is recorded (on) or not, with no failure to remember
NoFailure(on) == [on |-> on, txt |-> <<>>]

\* prevFp, prevOcr and failed are not recorded
Init == InitApp /\ prevFp = Unrecorded /\ prevOcr = -1 /\ failed = NoFailure(FALSE)

\* prevFp and prevOcr are recorded
InitRec == InitApp /\ prevFp = None /\ prevOcr = 0 /\ failed = NoFailure(FALSE)

\* failed is recorded
InitRetry == InitApp /\ prevFp = Unrecorded /\ prevOcr = -1 /\ failed = NoFailure(TRUE)

(***************************************************************************)
(* The UI thread                                                            *)
(***************************************************************************)
\* select_region up to selector.select(): the status is set and the modal
\* selector runs a nested event loop (wait_window) until it is destroyed
SelectRegionOpen ==
    /\ ui = "idle"
    /\ ui' = "selecting"
    /\ status' = StDrag
    /\ UNCHANGED <<appVars, text, btn_start, btn_stop, queue, shown, threads>>

\* the rest of select_region once the selector has returned `result`
SelectRegionReturn(result) ==
    /\ ui = "selecting"
    /\ ui' = "idle"
    /\ IF result = None
       THEN /\ status' = StCancelled
            /\ UNCHANGED <<region, last_hash, lact_ocr, cache>>
       ELSE /\ region' = result
            /\ last_hash' = None
            /\ lact_ocr' = Some(<<>>)
            /\ cache' = << >>
            /\ status' = StRegionSet
    /\ UNCHANGED <<running, last_ocr, text, btn_start, btn_stop, queue, shown, threads>>

\* RegionSelector.cancel (Escape)
SelectCancel == SelectRegionReturn(None)

\* RegionSelector.on_press at (x1, y1) followed by on_release at (x2, y2)
SelectRelease ==
    \E press \in Points, release \in Points :
        SelectRegionReturn(on_release(press[1], press[2], release[1], release[2]))

\* start (the Start button)
Start ==
    /\ ui = "idle"
    /\ btn_start = "normal"
    /\ IF region = None
       THEN /\ status' = StPlease
            /\ UNCHANGED <<running, btn_start, btn_stop, threads>>
       ELSE IF running
       THEN UNCHANGED <<status, running, btn_start, btn_stop, threads>>
       ELSE /\ NumAlive < MaxWorkers
            /\ running' = TRUE
            /\ btn_start' = "disabled"
            /\ btn_stop' = "normal"
            /\ status' = StRunning
            /\ threads' = threads (+) SetToBag({AtWhile})
    /\ UNCHANGED <<region, loopVars, lact_ocr, text, ui, queue, shown>>

\* stop, as called by the Stop button and by on_close
stop ==
    IF ~running
    THEN UNCHANGED <<running, btn_start, btn_stop, status>>
    ELSE /\ running' = FALSE
         /\ btn_start' = "normal"
         /\ btn_stop' = "disabled"
         /\ status' = StStopped

\* the Stop button
Stop ==
    /\ ui = "idle"
    /\ btn_stop = "normal"
    /\ stop
    /\ UNCHANGED <<region, loopVars, lact_ocr, text, ui, queue, shown, threads>>

\* on_close: stop(), root.destroy(); mainloop returns, the process exits and
\* its daemon threads end with it wherever they are
OnClose ==
    /\ ui = "idle"
    /\ stop
    /\ ui' = "closed"
    /\ queue' = <<>>
    /\ threads' = EmptyBag
    /\ UNCHANGED <<region, loopVars, lact_ocr, text, shown>>

\* the event loop (mainloop, or wait_window while selecting) runs the oldest
\* pending root.after callback: status.set(arg) or set_translation(arg)
RunCallback ==
    /\ ui # "closed"
    /\ queue # <<>>
    /\ queue' = Tail(queue)
    /\ IF Head(queue).fn = "status.set"
       THEN status' = Head(queue).arg /\ UNCHANGED text
       ELSE text' = Head(queue).arg /\ UNCHANGED status
    /\ UNCHANGED <<appVars, btn_start, btn_stop, ui, shown, threads>>

(***************************************************************************)
(* A worker thread: loop()                                                 *)
(***************************************************************************)
\* self.root.after(0, fn, arg)
after(fn, arg) ==
    /\ Len(queue) < MaxQueue
    /\ queue' = Append(queue, [fn |-> fn, arg |-> arg])

\* the thread with frame t moves on to frame u
Goto(t, u) == threads' = (threads (-) SetToBag({t})) (+) SetToBag({u})

\* loop() of the thread with frame t returns or raises
Exit(t) == threads' = threads (-) SetToBag({t})

\* While with the loop test always true
While_True(t) ==
    /\ t.pc = "while"
    /\ Goto(t, Frame("grab", 0, <<>>, <<>>))
    /\ UNCHANGED <<appVars, uiVars, queue>>

\* while self.running
While(t) ==
    /\ t.pc = "while"
    /\ IF running THEN Goto(t, Frame("grab", 0, <<>>, <<>>)) ELSE Exit(t)
    /\ UNCHANGED <<appVars, uiVars, queue>>

\* sct.grab raises: the exception ends loop() and the thread
GrabFails(t) ==
    /\ t.pc = "grab"
    /\ Exit(t)
    /\ UNCHANGED <<appVars, uiVars, queue>>

\* Grab with a status update posted when the fingerprint is the last one
Grab_ReportsNoChange(t) ==
    /\ t.pc = "grab"
    /\ \E f \in shown :
        IF Some(cheap_region_hash(f)) = last_hash
        THEN after("status.set", StSameText) /\ Goto(t, AtWhile)
        ELSE Goto(t, Frame("set_hash", f, <<>>, <<>>)) /\ UNCHANGED queue
    /\ UNCHANGED <<appVars, uiVars>>

\* raw = sct.grab(...); h = cheap_region_hash(img); if h == self.last_hash
Grab(t) ==
    /\ t.pc = "grab"
    /\ \E f \in shown :
        IF Some(cheap_region_hash(f)) = last_hash
        THEN Goto(t, AtWhile)
        ELSE Goto(t, Frame("set_hash", f, <<>>, <<>>))
    /\ UNCHANGED <<appVars, uiVars, queue>>

\* self.last_hash = h
SetHash(t) ==
    /\ t.pc = "set_hash"
    /\ last_hash' = Some(cheap_region_hash(t.img))
    /\ Goto(t, [t EXCEPT !.pc = "ocr"])
    /\ UNCHANGED <<region, running, last_ocr, lact_ocr, cache, uiVars, queue>>

\* pytesseract.image_to_string raises
OcrFails(t) ==
    /\ t.pc = "ocr"
    /\ Exit(t)
    /\ UNCHANGED <<appVars, uiVars, queue>>

\* Ocr with the length test made on the text as the OCR engine returns it
Ocr_RawLength(t) ==
    /\ t.pc = "ocr"
    /\ LET o == normalize_ocr_text(OcrRaw[t.img])
       IN  IF Len(OcrRaw[t.img]) < MIN_TEXT_CHARS
           THEN after("status.set", StNoText) /\ Goto(t, AtWhile)
           ELSE IF o = last_ocr
           THEN after("status.set", StSameText) /\ Goto(t, AtWhile)
           ELSE Goto(t, Frame("set_ocr", 0, o, <<>>)) /\ UNCHANGED queue
    /\ UNCHANGED <<appVars, uiVars>>

\* Ocr with the display cleared when too little text is recognized
Ocr_ClearsOnShort(t) ==
    /\ t.pc = "ocr"
    /\ LET o == normalize_ocr_text(OcrRaw[t.img])
       IN  IF Len(o) < MIN_TEXT_CHARS
           THEN after("set_translation", <<>>) /\ Goto(t, AtWhile)
           ELSE IF o = last_ocr
           THEN after("status.set", StSameText) /\ Goto(t, AtWhile)
           ELSE Goto(t, Frame("set_ocr", 0, o, <<>>)) /\ UNCHANGED queue
    /\ UNCHANGED <<appVars, uiVars>>

\* preprocess, image_to_string, normalize_ocr_text and the two tests on ocr_text
Ocr(t) ==
    /\ t.pc = "ocr"
    /\ LET o == normalize_ocr_text(OcrRaw[t.img])
       IN  IF Len(o) < MIN_TEXT_CHARS
           THEN after("status.set", StNoText) /\ Goto(t, AtWhile)
           ELSE IF o = last_ocr
           THEN after("status.set", StSameText) /\ Goto(t, AtWhile)
           ELSE Goto(t, Frame("set_ocr", 0, o, <<>>)) /\ UNCHANGED queue
    /\ UNCHANGED <<appVars, uiVars>>

\* SetOcr with no status posted on a cache hit
SetOcr_Silent(t) ==
    /\ t.pc = "set_ocr"
    /\ last_ocr' = t.ocr_text
    /\ IF t.ocr_text \in DOMAIN cache
       THEN Goto(t, [t EXCEPT !.pc = "publish", !.translated = cache[t.ocr_text]])
       ELSE Goto(t, [t EXCEPT !.pc = "translate"])
    /\ UNCHANGED <<region, running, last_hash, lact_ocr, cache, uiVars, queue>>

\* self.last_ocr = ocr_text; if ocr_text in self.cache
SetOcr(t) ==
    /\ t.pc = "set_ocr"
    /\ last_ocr' = t.ocr_text
    /\ IF t.ocr_text \in DOMAIN cache
       THEN /\ after("status.set", StCached)
            /\ Goto(t, [t EXCEPT !.pc = "publish", !.translated = cache[t.ocr_text]])
       ELSE /\ Goto(t, [t EXCEPT !.pc = "translate"])
            /\ UNCHANGED queue
    /\ UNCHANGED <<region, running, last_hash, lact_ocr, cache, uiVars>>

\* translate_text returns result
Translate(t) ==
    /\ t.pc = "translate"
    /\ cache' = (t.ocr_text :> ServiceText(t.ocr_text)) @@ cache
    /\ after("status.set", StTranslated)
    /\ Goto(t, [t EXCEPT !.pc = "publish", !.translated = ServiceText(t.ocr_text)])
    /\ UNCHANGED <<region, running, last_hash, last_ocr, lact_ocr, uiVars>>

\* TranslateFails with the error payload stored in the cache
TranslateFails_Cached(t) ==
    /\ t.pc = "translate"
    /\ cache' = (t.ocr_text :> ErrorPayload(ErrDetail, t.ocr_text)) @@ cache
    /\ after("status.set", StError)
    /\ Goto(t, [t EXCEPT !.pc = "publish", !.e = Some(ErrDetail),
                         !.translated = ErrorPayload(ErrDetail, t.ocr_text)])
    /\ UNCHANGED <<region, running, last_hash, last_ocr, lact_ocr, uiVars>>

\* TranslateFails with the exception left to end loop()
TranslateFails_Raises(t) ==
    /\ t.pc = "translate"
    /\ Exit(t)
    /\ UNCHANGED <<appVars, uiVars, queue>>

\* translate_text raises
TranslateFails(t) ==
    /\ t.pc = "translate"
    /\ after("status.set", StError)
    /\ Goto(t, [t EXCEPT !.pc = "publish", !.e = Some(ErrDetail),
                         !.translated = ErrorPayload(ErrDetail, t.ocr_text)])
    /\ UNCHANGED <<appVars, uiVars>>

\* self.root.after(0, self.set_translation, translated); time.sleep
Publish(t) ==
    /\ t.pc = "publish"
    /\ after("set_translation", t.translated)
    /\ Goto(t, AtWhile)
    /\ UNCHANGED <<appVars, uiVars>>

(***************************************************************************)
(* History variables.  Each is a function of the step taken by the         *)
(* program; none is read by the program.                                   *)
(***************************************************************************)
\* select_region has just stored a region
Selected == ui = "selecting" /\ ui' = "idle" /\ status' = StRegionSet

\* the history after a step of the UI thread: recording starts when a region
\* is selected while no thread is alive, and ends with any other use of the
\* selector and with the exit of the process
ObserveUI ==
    /\ fresh' = IF Selected THEN threads = EmptyBag
                ELSE IF ui' = "closed" THEN FALSE ELSE fresh
    /\ prevFp' = IF prevFp # Unrecorded /\ (Selected \/ ui' = "closed") THEN None ELSE prevFp
    /\ prevOcr' = IF prevOcr >= 0 /\ (Selected \/ ui' = "closed") THEN 0 ELSE prevOcr
    /\ hist' = IF Selected /\ threads = EmptyBag
               THEN [on |-> TRUE, ticks |-> <<>>, calls |-> 0]
               ELSE IF ui' # ui \/ Len(hist.ticks) = 3 THEN HistOff ELSE hist
    /\ failed' = IF Selected \/ ui' = "closed" THEN NoFailure(failed.on) ELSE failed

\* the frame the thread with frame t has moved on to; t itself when its
\* loop() has ended
After(t) ==
    IF BagCardinality(threads') < BagCardinality(threads) THEN t
    ELSE CHOOSE u \in BagToSet(threads') : CopiesIn(u, threads') > CopiesIn(u, threads)

\* hist with one more tick, which recognized the text o and published p ("" when
\* it published nothing).  Only sequences of texts A, B, A are recorded, with A
\* and B different and of MIN_TEXT_CHARS characters or more
Completed(o, p) ==
    LET n == Len(hist.ticks)
        fits == /\ Len(o) >= MIN_TEXT_CHARS
                /\ n = 1 => o # hist.ticks[1].txt
                /\ n = 2 => o = hist.ticks[1].txt
    IN  IF fits
        THEN [hist EXCEPT !.ticks = Append(@, [txt |-> o, pub |-> p, calls |-> hist.calls])]
        ELSE HistOff

\* the history after a step of the thread with frame t
ObserveStep(t) ==
    LET u == After(t)
        ended == u = t
    IN  /\ fresh' = IF t.pc = "grab" THEN FALSE ELSE fresh
        /\ prevFp' = IF prevFp # Unrecorded /\ t.pc = "grab" /\ ~ended
                     THEN IF u.pc = "set_hash" THEN Some(cheap_region_hash(u.img))
                          ELSE last_hash
                     ELSE prevFp
        /\ prevOcr' = IF prevOcr >= 0 /\ t.pc = "ocr" /\ ~ended THEN t.img ELSE prevOcr
        /\ hist' =
             IF ~hist.on THEN hist
             ELSE IF Len(hist.ticks) = 3 THEN HistOff
             ELSE IF t.pc = "translate"
             THEN IF u.e # None THEN HistOff
                  ELSE [hist EXCEPT !.calls = Min(@ + 1, MaxCalls)]
             ELSE IF t.pc = "ocr" /\ ~ended /\ u.pc = "while"
             THEN Completed(normalize_ocr_text(OcrRaw[t.img]), <<>>)
             ELSE IF t.pc = "publish"
             THEN Completed(t.ocr_text, t.translated)
             ELSE hist
        /\ failed' =
             IF ~failed.on THEN failed
             ELSE IF t.pc = "translate" /\ u.e # None
             THEN [failed EXCEPT !.txt = t.ocr_text]
             ELSE IF /\ t.pc = "ocr" /\ ~ended
                     /\ Len(normalize_ocr_text(OcrRaw[t.img])) >= MIN_TEXT_CHARS
                     /\ normalize_ocr_text(OcrRaw[t.img]) # failed.txt
             THEN NoFailure(TRUE)
             ELSE failed

Next ==
    \/ SelectRegionOpen /\ ObserveUI
    \/ SelectCancel /\ ObserveUI
    \/ SelectRelease /\ ObserveUI
    \/ Start /\ ObserveUI
    \/ Stop /\ ObserveUI
    \/ OnClose /\ ObserveUI
    \/ RunCallback /\ ObserveUI
    \/ \E t \in Alive : While(t) /\ ObserveStep(t)
    \/ \E t \in Alive : GrabFails(t) /\ ObserveStep(t)
    \/ \E t \in Alive : Grab(t) /\ ObserveStep(t)
    \/ \E t \in Alive : SetHash(t) /\ ObserveStep(t)
    \/ \E t \in Alive : OcrFails(t) /\ ObserveStep(t)
    \/ \E t \in Alive : Ocr(t) /\ ObserveStep(t)
    \/ \E t \in Alive : SetOcr(t) /\ ObserveStep(t)
    \/ \E t \in Alive : Translate(t) /\ ObserveStep(t)
    \/ \E t \in Alive : TranslateFails(t) /\ ObserveStep(t)
    \/ \E t \in Alive : Publish(t) /\ ObserveStep(t)

Spec == Init /\ [][Next]_vars

\* a step of the thread with frame t
Step(t) ==
    \/ While(t) \/ GrabFails(t) \/ Grab(t) \/ SetHash(t) \/ OcrFails(t) \/ Ocr(t)
    \/ SetOcr(t) \/ Translate(t) \/ TranslateFails(t) \/ Publish(t)

\* a step of some thread
Worker == \E t \in Alive : Step(t) /\ ObserveStep(t)

\* the scheduler runs every thread that can run, and the event loop runs the
\* callbacks that are pending
Fairness == WF_vars(Worker) /\ WF_vars(RunCallback /\ ObserveUI)

FairSpec == Spec /\ Fairness

\* the program with prevFp and prevOcr recorded
RecSpec == InitRec /\ [][Next]_vars

\* the program with failed recorded
RetrySpec == InitRetry /\ [][Next]_vars

(***************************************************************************)
(* Properties                                                              *)
(***************************************************************************)
\* a thread with frame t takes a step of its own
Left(t) == CopiesIn(t, threads') < CopiesIn(t, threads) /\ ui' # "closed"

\* last_hash, last_ocr and the cache are as __init__ leaves them
LoopStateReset == last_hash = None /\ last_ocr = <<>> /\ DOMAIN cache = {}

\* C1: after a successful select_region (made while no thread is alive), and
\* until the next tick grabs the screen, last_hash is unset, the last
\* normalized text is "" and the cache is empty
C1_ResetForNextTick == fresh => LoopStateReset

\* C2: a tick that grabs the same pixels as the tick before it (whatever
\* start and stop clicks lie between them) does not go on to the OCR
C2_DedupSkip ==
    [][\A t \in Alive :
          (t.pc = "grab" /\ Left(t) /\ After(t).pc = "set_hash")
              => Some(cheap_region_hash(After(t).img)) # prevFp]_vars

\* C3: a tick whose fingerprint differs from that of the tick OCRed before it
\* and whose text normalizes to the same string ends after the OCR: it goes on
\* neither to the translation nor to the publication
C3_TextDedup ==
    [][\A t \in Alive :
          ( /\ t.pc = "ocr" /\ Left(t)
            /\ prevOcr > 0
            /\ cheap_region_hash(t.img) # cheap_region_hash(prevOcr)
            /\ normalize_ocr_text(OcrRaw[t.img]) = normalize_ocr_text(OcrRaw[prevOcr]) )
              => After(t).pc \in {"ocr", "while"}]_vars

\* C4: three ticks in a row that recognize the texts A, B, A (the first ticks
\* after a region is selected, with every translate_text call returning) make
\* two calls in all, one in the first tick and one in the second, and the third
\* tick publishes the translation the first tick stored
C4_CacheABA ==
    Len(hist.ticks) = 3 =>
        /\ hist.ticks[1].calls = 1
        /\ hist.ticks[2].calls = 2
        /\ hist.ticks[3].calls = 2
        /\ hist.ticks[3].pub = hist.ticks[1].pub
        /\ hist.ticks[3].pub = ServiceText(hist.ticks[1].txt)

\* s holds sub as a run of consecutive elements
Contains(s, sub) ==
    \E i \in 0..(Len(s) - Len(sub)) : SubSeq(s, i + 1, i + Len(sub)) = sub

\* the root.after call that posts fn(arg) has just been made
Posted(fn, arg) == queue' = Append(queue, [fn |-> fn, arg |-> arg])

\* C5: a tick whose normalized text has fewer than MIN_TEXT_CHARS characters
\* ends at the length test: it posts the "not enough text" status and nothing
\* else, and leaves last_hash, last_ocr and the cache as they are; no thread
\* is ever at the text comparison's far side, the cache lookup, the
\* translation or the publication with such a text
C5_MinLengthFloor ==
    [][ /\ \A t \in Alive :
             (t.pc = "ocr" /\ Left(t) /\ threads' # threads (-) SetToBag({t})
                /\ Len(normalize_ocr_text(OcrRaw[t.img])) < MIN_TEXT_CHARS)
                 => /\ After(t) = AtWhile
                    /\ Posted("status.set", StNoText)
                    /\ UNCHANGED <<last_hash, last_ocr, cache, status, text>>
        /\ \A u \in BagToSet(threads') :
             u.pc \in {"set_ocr", "translate", "publish"}
                 => Len(u.ocr_text) >= MIN_TEXT_CHARS ]_vars

\* a tick has ended at the length test and its status is on the status line
C5_Witness == status = StNoText

C7_OneWorker == BagCardinality(threads) <= 1

\* C8: while a thread is alive, last_hash, last_ocr and the cache change only
\* in steps of the threads
C8_WorkerOwnsLoopState ==
    [][(threads # EmptyBag /\ <<last_hash, last_ocr, cache>>' # <<last_hash, last_ocr, cache>>)
          => \E t \in Alive : Left(t)]_vars

\* C9: select_region stores a region (and clears the state) only while
\* running is false
C9_SelectOnlyWhenStopped == [][Selected => ~running]_vars

\* the thread with frame t is interrupted in the middle of a tick: it leaves its
\* position by a step that is not its own
Interrupted(t) ==
    t.pc # "while" /\ CopiesIn(t, threads') < CopiesIn(t, threads) /\ ~Step(t)

\* a thread that finds running false at the while test leaves loop()
StopObserved ==
    \A t \in Alive : (t.pc = "while" /\ ~running /\ Step(t)) => threads' = threads (-) SetToBag({t})

\* once running is false, and until start() sets it again, some thread is
\* alive no longer than it takes to end
Winds == (~running) ~> (running \/ threads = EmptyBag)

\* C10 as stated: while running stays false no thread is interrupted in the
\* middle of a tick, a thread that reaches the while test ends (so that it
\* begins no tick but the one whose test it had passed), and all threads end
C10_StopCooperative ==
    /\ [][~running' => (StopObserved /\ \A t \in Alive : ~Interrupted(t))]_vars
    /\ Winds

\* C10 as amended: the same while the window is not closed
C10_StopCooperativeUntilClose ==
    /\ [][(~running' /\ ui' # "closed")
             => (StopObserved /\ \A t \in Alive : ~Interrupted(t))]_vars
    /\ Winds

\* stop() has run while a thread was in the middle of a tick
C10_Witness ==
    ~running /\ status = StStopped /\ \E t \in Alive : t.pc = "translate"

\* the thread with frame t takes a step of its own and stays in loop()
Moved(t) == Left(t) /\ BagCardinality(threads') = BagCardinality(threads)

\* the tick of the thread with frame t ends with this step
Completes(t) == Moved(t) /\ t.pc # "while" /\ After(t) = AtWhile

\* the tick of the thread with frame t ends at one of the three tests that skip
Skips(t) == Completes(t) /\ t.pc \in {"grab", "ocr"}

\* the last root.after call made in this step, if one was made
Post == queue'[Len(queue')]

\* a root.after call is made in this step
Posts == Len(queue') = Len(queue) + 1

\* C11: the text widget changes only when the event loop runs a pending
\* set_translation callback; such a callback is posted only by the last step
\* of a tick that translated, hit the cache or built the failure payload, with
\* that tick's text; a tick that ends at a skip posts none and no step of a
\* thread changes the text
C11_TextOnlyFromPublish ==
    [][ /\ text' # text
             => /\ queue # <<>>
                /\ Head(queue).fn = "set_translation"
                /\ text' = Head(queue).arg
                /\ queue' = Tail(queue)
        /\ Posts => \E t \in Alive : Left(t)
        /\ \A t \in Alive :
             Left(t)
                 => /\ text' = text
                    /\ (Posts /\ Post.fn = "set_translation")
                         => /\ t.pc = "publish"
                            /\ Post.arg = t.translated
                            /\ t.translated \in {ServiceText(t.ocr_text),
                                                 ErrorPayload(ErrDetail, t.ocr_text)}
                    /\ Skips(t) => (queue' = queue \/ Post.fn = "status.set") ]_vars

\* a translation is on display and a later tick has ended as "same text"
C11_Witness ==
    text = ServiceText(normalize_ocr_text(OcrRaw[1])) /\ status = StSameText

\* the status updates a tick has posted when its thread is at pc
SoFar(pc) == IF pc = "publish" THEN 1 ELSE 0

\* the status updates posted in this step
StatusPosts == IF Posts /\ Post.fn = "status.set" THEN 1 ELSE 0

\* C12 as stated: every tick that completes, whatever its outcome, has posted
\* exactly one status update: each step of a tick adds its status updates to
\* those the tick has posted so far, and the last step brings them to one
C12_OneStatusPerTick ==
    [][\A t \in Alive :
          Moved(t) => IF Completes(t)
                      THEN SoFar(t.pc) + StatusPosts = 1
                      ELSE SoFar(After(t).pc) = SoFar(t.pc) + StatusPosts]_vars

\* C12 as amended: a tick that ends at the fingerprint test posts no status
\* update; every other tick that completes has posted exactly one
C12_OneStatusUnlessSamePixels ==
    [][\A t \in Alive :
          Moved(t) => IF Completes(t)
                      THEN SoFar(t.pc) + StatusPosts = (IF t.pc = "grab" THEN 0 ELSE 1)
                      ELSE SoFar(After(t).pc) = SoFar(t.pc) + StatusPosts]_vars

\* the one status update of a tick that hit the cache is on the status line
C12_Witness == status = StCached

\* the event loop runs the oldest pending callback, and nothing else happens
AppliesHead ==
    /\ queue # <<>>
    /\ queue' = Tail(queue)
    /\ IF Head(queue).fn = "status.set"
       THEN status' = Head(queue).arg /\ text' = text
       ELSE text' = Head(queue).arg /\ status' = status

\* C13: no step of a thread changes the status line, the text widget or a
\* button: it appends at most one callback to the event queue; callbacks leave
\* the queue from its head, each applied as it leaves; a tick posts its status
\* update before its text update, and no tick posts an update while another
\* tick has posted its status update and not yet its text update
C13_MarshaledInOrder ==
    [][ /\ \A t \in Alive :
             Left(t)
                 => /\ UNCHANGED <<status, text, btn_start, btn_stop>>
                    /\ queue' = queue \/ (Posts /\ queue' = Append(queue, Post))
                    /\ (Moved(t) /\ After(t).pc = "publish")
                         => (Posts /\ Post.fn = "status.set")
                    /\ (Posts /\ Post.fn = "set_translation") => t.pc = "publish"
                    /\ Posts => \A u \in BagToSet(threads (-) SetToBag({t})) :
                                    u.pc # "publish"
        /\ (queue' # queue /\ ~Posts) => (AppliesHead \/ ui' = "closed") ]_vars

\* C14: a call of translate_text, whether it returns or raises, leaves its
\* thread in loop(): the thread goes on to publish; a thread that publishes a
\* failure payload goes back to the while test, and a thread at the while test
\* goes on to the next grab when running is true
C14_FailureKeepsLooping ==
    [][\A t \in Alive :
          Left(t)
              => /\ t.pc = "translate" => (Moved(t) /\ After(t).pc = "publish")
                 /\ (t.pc = "publish" /\ t.e # None)
                      => /\ Moved(t)
                         /\ After(t) = AtWhile
                         /\ Posted("set_translation", t.translated)
                 /\ (t.pc = "while" /\ running)
                      => (Moved(t) /\ After(t).pc = "grab")]_vars

\* a failed translation has been shown and a thread is in a later tick
C14_Witness ==
    /\ running
    /\ status = StError
    /\ text = ErrorPayload(ErrDetail, normalize_ocr_text(OcrRaw[3]))
    /\ \E t \in Alive : t.pc = "ocr"

\* the texts the program ever sets the status line to; none of them tells of a
\* failed capture or a failed OCR call
StatusTexts ==
    {StSelectFirst, StDrag, StCancelled, StRegionSet, StPlease, StRunning,
     StStopped, StNoText, StSameText, StCached, StTranslated, StError}

\* C15: the application is never left with running true, no live thread, no
\* update pending, and a status line that does not tell of the failure that
\* ended the thread
C15_FailureSurfaced ==
    (running /\ threads = EmptyBag /\ queue = <<>>) => status \notin StatusTexts

\* the distance between the coordinates a and b
Dist(a, b) == Max(a, b) - Min(a, b)

\* C16: a drag whose rectangle is less than 40 pixels wide or high yields no
\* selection.  When the selector returns none (cancelled or rejected), only
\* the status changes: region, last_hash, last_ocr and the cache are as they
\* were.  When it returns a selection, the region stored is 40 pixels or more
\* in width and in height and the cache is emptied in that step
C16_SelectionOutcome ==
    /\ [](\A p \in Points, q \in Points :
             (Dist(p[1], q[1]) < 40 \/ Dist(p[2], q[2]) < 40)
                 => on_release(p[1], p[2], q[1], q[2]) = None)
    /\ [][(ui = "selecting" /\ ui' = "idle")
             => \/ /\ status' = StCancelled
                   /\ UNCHANGED <<region, last_hash, last_ocr, cache, running, text>>
                \/ /\ status' = StRegionSet
                   /\ region' # None
                   /\ region'[1].width >= 40
                   /\ region'[1].height >= 40
                   /\ DOMAIN cache' = {}]_vars

\* a region is stored and a later use of the selector was cancelled or rejected
C16_Witness == region # None /\ status = StCancelled /\ DOMAIN cache # {}

\* C17: a tick that ends at the fingerprint test changes nothing: last_hash,
\* last_ocr, the cache, the status line and the text are as they were, and no
\* callback is posted that would change them; the tick happens exactly when
\* the fingerprint of the frame grabbed is last_hash
C17_SamePixelsNoOp ==
    [][\A t \in Alive :
          (t.pc = "grab" /\ Moved(t))
              => IF After(t) = AtWhile
                 THEN /\ last_hash \in {Some(cheap_region_hash(f)) : f \in shown}
                      /\ UNCHANGED <<last_hash, last_ocr, cache, status, text, queue,
                                     region, running, btn_start, btn_stop>>
                 ELSE Some(cheap_region_hash(After(t).img)) # last_hash]_vars

\* a thread is about to grab the screen, which can show the frame whose
\* fingerprint is last_hash, after an earlier tick has been through the OCR
C17_Witness ==
    /\ \E t \in Alive : t.pc = "grab"
    /\ \E f \in shown : Some(cheap_region_hash(f)) = last_hash
    /\ status = StNoText

\* C18: while the text T of a failed translate_text call is remembered (no
\* tick has since recognized another text of MIN_TEXT_CHARS characters or
\* more, and no region has been selected), translate_text is not called for T,
\* and every tick that recognizes T ends as "same text"
C18_NoRetryOfSameText ==
    [][\A t \in Alive :
          (Left(t) /\ failed.txt # <<>>)
              => /\ t.pc = "translate" => t.ocr_text # failed.txt
                 /\ (t.pc = "ocr" /\ Moved(t)
                       /\ normalize_ocr_text(OcrRaw[t.img]) = failed.txt)
                      => (After(t) = AtWhile /\ Posted("status.set", StSameText))]_vars

\* running is false with a region selected, as it is from stop() to the next
\* start(), and this step is no action of the user: not a click on Start (which
\* sets running when there is a region), not the opening or the end of a
\* selection, not the closing of the window
StoppedAndLeftAlone == region # None /\ ~running /\ ~running' /\ ui' = ui

\* C19 as stated: while the status line reads "Stopped." after stop(), and
\* until the user acts, the status line and the text do not change
C19_StoppedStaysStopped ==
    [][(StoppedAndLeftAlone /\ status = StStopped)
          => UNCHANGED <<status, text>>]_vars

\* C19 as amended: after stop(), and until the user acts, the status line and
\* the text change only when the event loop runs a pending callback; callbacks
\* are posted only by the ticks that were in progress when stop() ran, as no
\* thread begins a tick; once no thread is alive and no callback is pending,
\* the status line and the text do not change
C19_OnlyTicksInProgress ==
    [][StoppedAndLeftAlone
          => /\ (status' # status \/ text' # text) => AppliesHead
             /\ Posts => \E t \in Alive : Left(t) /\ t.pc # "while"
             /\ \A t \in Alive :
                  (Left(t) /\ t.pc = "while") => threads' = threads (-) SetToBag({t})
             /\ (threads = EmptyBag /\ queue = <<>>)
                  => UNCHANGED <<status, text, queue, threads>>]_vars

\* stop() has run, the threads have ended, and the status line shows the
\* outcome of a tick
C19_Witness ==
    /\ ~running
    /\ ui = "idle"
    /\ threads = EmptyBag
    /\ queue = <<>>
    /\ status = StTranslated

\* C20: every key of the cache is a normalized text of MIN_TEXT_CHARS
\* characters or more and its value is what translate_text returned for it,
\* never an error payload; a tick writes the cache only for a key it does not
\* hold and changes no entry it holds; entries leave the cache only when a
\* successful region selection empties it
C20_CacheInvariant ==
    /\ [](\A k \in DOMAIN cache :
             /\ Len(k) >= MIN_TEXT_CHARS
             /\ normalize_ocr_text(k) = k
             /\ cache[k] = ServiceText(k)
             /\ ~Contains(cache[k], <<"[DeepL error]">>))
    /\ [][ /\ \A t \in Alive :
                Left(t)
                    => /\ (t.pc = "translate" /\ After(t).e = None)
                            => t.ocr_text \notin DOMAIN cache
                       /\ \A k \in DOMAIN cache :
                            k \in DOMAIN cache' /\ cache'[k] = cache[k]
           /\ (\E k \in DOMAIN cache : k \notin DOMAIN cache')
                => (Selected /\ DOMAIN cache' = {}) ]_vars

====
